---- MODULE Spec2Model ----
(***************************************************************************)
(* Model of the bunup CLI (packages/cli): the init flow (init.ts) and the   *)
(* create flow (create.ts), as state machines whose steps are the segments  *)
(* of code between two awaited prompts or collaborator calls.               *)
(*                                                                          *)
(* Conventions.                                                             *)
(*  - A text value (path, name) is a sequence of strings: a path is the     *)
(*    sequence of its segments, a project name the sequence of its          *)
(*    characters.  The empty string is <<>>.                                *)
(*  - The prompt library resolves a prompt with a unique symbol when the    *)
(*    user cancels (its result type is Value | symbol).  The symbol is      *)
(*    CancelSym for text and multiselect prompts and "cancel" for confirm   *)
(*    and select prompts; the validator of a text prompt is not run on it.  *)
(*  - A JSON value is a record [k, s, f]: a string (k = "str", s), an       *)
(*    object (k = "obj", f the sequence of its members in key order), or    *)
(*    undefined (k = "undef", the result of reading an absent key).         *)
(*  - A file's text is a sequence of tokens [t, v]; the text of a file of   *)
(*    a created project is a sequence of pieces, a placeholder being one.   *)
(***************************************************************************)
EXTENDS Integers, Sequences, FiniteSets, TLC

VARIABLES
    command,           \* the subcommand the process was started with ("none" before)
    pc,                \* position of the running flow
    exitCode,          \* -1 while no process has ended, else the exit status
    logged,            \* messages logged by log.error, log.info and cancel
    prompted,          \* kinds of prompt shown in this invocation
    cancelled,         \* a cancel signal was given at a prompt in this invocation
    packageJson,       \* the manifest on disk: [exists, text]
    files,             \* regular files on disk (paths)
    dirs,              \* directories on disk (paths)
    cwdEntries,        \* names that exist in the working directory
    configWrites,      \* number of writes of bunup.config.ts
    installs,          \* number of invocations of the install step
    outros,            \* number of closing summaries shown
    shouldSetupWorkspace,
    entryFiles,
    outputFormats,
    plugins,
    packages,
    packageName,
    packageRoot,
    conflictingScripts,
    merge,             \* record of this invocation's merge step
    previous,          \* record of the merge step of the invocation before this one
    projectNameFromCli,
    template,
    selectedVariant,
    useMonorepo,
    projectName,
    monorepoFirstPackageName,
    githubRepoInfo,
    templateDir,
    downloads,         \* calls of downloadTemplate: [dir, name]
    customized,        \* number of runs of the substitution task
    configFile,        \* bunup.config.ts on disk: [exists, text]
    projectText        \* the text of a file of the created project (pieces)

diskVars == <<packageJson, files, dirs, cwdEntries>>
effectVars == <<configWrites, installs, outros>>
collectVars == <<shouldSetupWorkspace, entryFiles, outputFormats, plugins, packages,
                 packageName, packageRoot>>
mergeVars == <<conflictingScripts, merge>>
createVars == <<projectNameFromCli, template, selectedVariant, useMonorepo, projectName,
                monorepoFirstPackageName, githubRepoInfo, templateDir, downloads,
                customized>>

textVars == <<configFile, projectText>>

vars == <<command, pc, exitCode, logged, prompted, cancelled, diskVars, effectVars,
          collectVars, mergeVars, previous, createVars, textVars>>

-----------------------------------------------------------------------------
(* Bounds *)

MaxScripts == 2        \* scripts in the manifest's table before the first run
MaxEntries == 2        \* entry files collected per list
MaxPackages == 2       \* workspace packages collected
MaxText == 2           \* pieces in the text of a project file before substitution

-----------------------------------------------------------------------------
(* Generic sequence helpers *)

Range(s) == {s[i] : i \in 1..Len(s)}

Includes(s, x) == \E i \in 1..Len(s) : s[i] = x

\* All sequences of elements of S of length at most n.
RECURSIVE SeqsUpTo(_, _)
SeqsUpTo(S, n) ==
    IF n = 0 THEN {<<>>}
    ELSE LET shorter == SeqsUpTo(S, n - 1)
         IN  shorter \cup {Append(q, x) : q \in shorter, x \in S}

\* All sequences of pairwise distinct elements of S of length at most n.
RECURSIVE DistinctSeqs(_, _)
DistinctSeqs(S, n) ==
    IF n = 0 THEN {<<>>}
    ELSE LET shorter == DistinctSeqs(S, n - 1)
         IN  shorter \cup UNION {{Append(q, x) : x \in S \ Range(q)} : q \in shorter}

-----------------------------------------------------------------------------
(* The prompt library's cancel symbol *)

CancelSym == <<"clack:cancel">>

\* Mutant: the declined answer is not told from the accepted one.
TruthyAnswer_AlwaysTrue(a) == TRUE

\* JavaScript truthiness of a confirm prompt's result (true, false or the symbol).
TruthyAnswer(a) == a # "no"

ConfirmAnswers == {"yes", "no", "cancel"}

-----------------------------------------------------------------------------
(* JSON values *)

Str(x) == [k |-> "str", s |-> x, f |-> <<>>]
Obj(ms) == [k |-> "obj", s |-> "", f |-> ms]
Undefined == [k |-> "undef", s |-> "", f |-> <<>>]

Member(key, val) == [key |-> key, val |-> val]

Keys(ms) == [i \in 1..Len(ms) |-> ms[i].key]

HasKey(ms, key) == \E i \in 1..Len(ms) : ms[i].key = key

\* obj[key]: the member's value, undefined when the key is absent.
Get(ms, key) ==
    IF HasKey(ms, key)
    THEN ms[CHOOSE i \in 1..Len(ms) : ms[i].key = key].val
    ELSE Undefined

\* JavaScript truthiness of a JSON value: undefined and "" are falsy.
Truthy(v) == v.k = "obj" \/ (v.k = "str" /\ v.s # "")

\* Mutant: a key that is already set keeps its old value.
SetKey_KeepsOld(ms, key, val) ==
    IF HasKey(ms, key) THEN ms ELSE Append(ms, Member(key, val))

\* obj[key] = val on an object literal under construction: an existing key keeps
\* its position, a new key is appended.
SetKey(ms, key, val) ==
    IF HasKey(ms, key)
    THEN [i \in 1..Len(ms) |-> IF ms[i].key = key THEN Member(key, val) ELSE ms[i]]
    ELSE Append(ms, Member(key, val))

\* Mutant: the members of b come first, those of a that b lacks after them.
Spread_NewFirst(a, b) == b \o SelectSeq(a, LAMBDA m : ~HasKey(b, m.key))

\* { ...a, ...b }
RECURSIVE Spread(_, _)
Spread(a, b) ==
    IF b = <<>> THEN a
    ELSE Spread(SetKey(a, b[1].key, b[1].val), Tail(b))

-----------------------------------------------------------------------------
(* JSON text: JSON.stringify(value, null, 2) and the loader's parse.        *)
(* Whitespace carries no token.                                             *)

Tok(t, v) == [t |-> t, v |-> v]

RECURSIVE StringifyValue(_), StringifyMembers(_)
StringifyValue(v) ==
    IF v.k = "str" THEN <<Tok("str", v.s)>>
    ELSE <<Tok("{", "")>> \o StringifyMembers(v.f) \o <<Tok("}", "")>>
StringifyMembers(ms) ==
    IF ms = <<>> THEN <<>>
    ELSE <<Tok("str", ms[1].key), Tok(":", "")>> \o StringifyValue(ms[1].val)
         \o (IF Len(ms) > 1 THEN <<Tok(",", "")>> ELSE <<>>)
         \o StringifyMembers(Tail(ms))

JSONStringify(v) == StringifyValue(v)

RECURSIVE ParseValue(_, _), ParseMembers(_, _, _)
ParseValue(toks, i) ==
    IF toks[i].t = "str"
    THEN [val |-> Str(toks[i].v), next |-> i + 1]
    ELSE ParseMembers(toks, i + 1, <<>>)
ParseMembers(toks, i, acc) ==
    IF toks[i].t = "}" THEN [val |-> Obj(acc), next |-> i + 1]
    ELSE IF toks[i].t = "," THEN ParseMembers(toks, i + 1, acc)
    ELSE LET r == ParseValue(toks, i + 2)
         IN  ParseMembers(toks, r.next, SetKey(acc, toks[i].v, r.val))

JSONParse(toks) == ParseValue(toks, 1).val

NoFile == [exists |-> FALSE, text |-> <<>>]
FileOf(text) == [exists |-> TRUE, text |-> text]

\* loadPackageJson(): { data, path }, both null when no manifest is found.
LoadPackageJson(file) ==
    IF file.exists
    THEN [found |-> TRUE, data |-> JSONParse(file.text)]
    ELSE [found |-> FALSE, data |-> Undefined]

-----------------------------------------------------------------------------
(* Manifest script merge (init.ts, handleBuildScripts and                   *)
(* handleWorkspaceBuildScripts)                                             *)

\* Mutant: the workspace pair runs its own command.
createWorkspaceBuildScripts_OwnCommand ==
    <<Member("build", Str("bunup --workspace")),
      Member("dev", Str("bunup --workspace --watch"))>>

createWorkspaceBuildScripts ==
    <<Member("build", Str("bunup")), Member("dev", Str("bunup --watch"))>>

createBuildScripts ==
    <<Member("build", Str("bunup")), Member("dev", Str("bunup --watch"))>>

NewScripts(isWorkspace) ==
    IF isWorkspace THEN createWorkspaceBuildScripts ELSE createBuildScripts

\* packageJsonConfig?.scripts ?? {}
ExistingScripts(data) ==
    LET scripts == Get(data.f, "scripts")
    IN  IF scripts.k = "undef" THEN <<>> ELSE scripts.f

\* Object.keys(newScripts).filter((script) => existingScripts[script])
ConflictingScripts(existingScripts, newScripts) ==
    SelectSeq(Keys(newScripts), LAMBDA script : Truthy(Get(existingScripts, script)))

\* Mutant: the other fields of the manifest are not spread into the new object.
UpdatedConfig_ScriptsOnly(data, existingScripts, newScripts) ==
    Obj(<<Member("scripts", Obj(Spread(existingScripts, newScripts)))>>)

\* Mutant: the whole manifest, not its scripts table, is spread into the new table.
UpdatedConfig_SpreadsManifest(data, existingScripts, newScripts) ==
    Obj(Spread(data.f, <<Member("scripts", Obj(Spread(data.f, newScripts)))>>))

\* { ...packageJsonConfig, scripts: { ...existingScripts, ...newScripts } }
UpdatedConfig(data, existingScripts, newScripts) ==
    Obj(Spread(data.f, <<Member("scripts", Obj(Spread(existingScripts, newScripts)))>>))

\* What Bun.write(packageJsonPath, JSON.stringify(updatedConfig, null, 2)) leaves
\* on disk, from the manifest file that was loaded.
WrittenManifest(file, isWorkspace) ==
    LET data == LoadPackageJson(file).data
        existingScripts == ExistingScripts(data)
    IN  FileOf(JSONStringify(UpdatedConfig(data, existingScripts, NewScripts(isWorkspace))))

NoMerge ==
    [reached |-> FALSE, isWorkspace |-> FALSE, before |-> NoFile, asked |-> FALSE,
     answer |-> "none", wrote |-> FALSE, finished |-> FALSE, after |-> NoFile]

\* The handler up to its first await of a prompt, or to its end when no confirmation
\* is asked: load, detect conflicts, then either ask or write.
HandleBuildScriptsCall(isWorkspace) ==
    LET data == LoadPackageJson(packageJson).data
        conflicts == ConflictingScripts(ExistingScripts(data), NewScripts(isWorkspace))
        asks == Len(conflicts) > 0
        written == WrittenManifest(packageJson, isWorkspace)
    IN  /\ conflictingScripts' = conflicts
        /\ prompted' = IF asks THEN prompted \cup {"override"} ELSE prompted
        /\ packageJson' = IF asks THEN packageJson ELSE written
        /\ merge' = [reached |-> TRUE, isWorkspace |-> isWorkspace,
                     before |-> packageJson, asked |-> asks, answer |-> "none",
                     wrote |-> ~asks, finished |-> ~asks,
                     after |-> IF asks THEN NoFile ELSE written]
        /\ pc' = IF asks THEN "override" ELSE "install"

\* Mutant: declining the confirmation ends the process as an error.
AnswerOverride_DeclineExits(shouldOverride) ==
    /\ pc = "override"
    /\ cancelled' = (cancelled \/ shouldOverride = "cancel")
    /\ logged' = IF TruthyAnswer(shouldOverride) THEN logged
                 ELSE logged \cup {"Skipped adding build scripts to avoid conflicts."}
    /\ packageJson' = IF TruthyAnswer(shouldOverride)
                      THEN WrittenManifest(packageJson, merge.isWorkspace)
                      ELSE packageJson
    /\ merge' = [merge EXCEPT !.answer = shouldOverride,
                              !.wrote = TruthyAnswer(shouldOverride),
                              !.finished = TRUE,
                              !.after = packageJson']
    /\ pc' = IF TruthyAnswer(shouldOverride) THEN "install" ELSE "exited"
    /\ exitCode' = IF TruthyAnswer(shouldOverride) THEN exitCode ELSE 1
    /\ UNCHANGED <<textVars, command, prompted, files, dirs, cwdEntries, effectVars,
                   collectVars, conflictingScripts, previous, createVars>>

\* The confirm prompt of the handler resolves with shouldOverride; the handler runs
\* to its end: skip with an informational message, or write.
AnswerOverride(shouldOverride) ==
    LET writes == TruthyAnswer(shouldOverride)
        written == WrittenManifest(packageJson, merge.isWorkspace)
    IN  /\ pc = "override"
        /\ cancelled' = (cancelled \/ shouldOverride = "cancel")
        /\ logged' = IF writes THEN logged
                     ELSE logged \cup {"Skipped adding build scripts to avoid conflicts."}
        /\ packageJson' = IF writes THEN written ELSE packageJson
        /\ merge' = [merge EXCEPT !.answer = shouldOverride, !.wrote = writes,
                                  !.finished = TRUE,
                                  !.after = IF writes THEN written ELSE packageJson]
        /\ pc' = "install"
        /\ UNCHANGED <<textVars, command, exitCode, prompted, files, dirs, cwdEntries, effectVars,
                       collectVars, conflictingScripts, previous, createVars>>

-----------------------------------------------------------------------------
(* Template descriptors (create.ts)                                         *)

\* Placeholder literals; each is one piece of a file's text.
DEFAULT_PLACEHOLDERS ==
    [GITHUB_USERNAME |-> "username", GITHUB_REPO |-> "repo-name",
     MONOREPO_FIRST_PACKAGE |-> "package-1"]

\* { ...DEFAULT_PLACEHOLDERS, DEFAULT_NAME: defaultName }
PlaceholdersWith(defaultName) ==
    [GITHUB_USERNAME |-> DEFAULT_PLACEHOLDERS.GITHUB_USERNAME,
     GITHUB_REPO |-> DEFAULT_PLACEHOLDERS.GITHUB_REPO,
     MONOREPO_FIRST_PACKAGE |-> DEFAULT_PLACEHOLDERS.MONOREPO_FIRST_PACKAGE,
     DEFAULT_NAME |-> defaultName]

TsTemplate ==
    [type |-> "typescript",
     defaultName |-> <<"my-ts-lib">>,
     variants |-> [basic |-> "ts-lib-basic", full |-> "ts-lib"],
     monorepo |-> [basic |-> "ts-lib-monorepo-basic", full |-> "ts-lib-monorepo"],
     placeholders |-> PlaceholdersWith("my-ts-lib")]

ReactTemplate ==
    [type |-> "react",
     defaultName |-> <<"my-react-lib">>,
     variants |-> [basic |-> "react-lib-basic", full |-> "react-lib"],
     placeholders |-> PlaceholdersWith("my-react-lib")]

TEMPLATES == <<TsTemplate, ReactTemplate>>

\* The result of TEMPLATES.find when no descriptor matches.
NoTemplate == [type |-> "none"]

\* TEMPLATES.find((t) => t.type === selectedTemplateType)
FindTemplate(selectedTemplateType) ==
    IF \E i \in 1..Len(TEMPLATES) : TEMPLATES[i].type = selectedTemplateType
    THEN TEMPLATES[CHOOSE i \in 1..Len(TEMPLATES) :
                       /\ TEMPLATES[i].type = selectedTemplateType
                       /\ \A j \in 1..(i - 1) : TEMPLATES[j].type # selectedTemplateType]
    ELSE NoTemplate

\* template.variants.basic is defined
HasBasic(t) == "basic" \in DOMAIN t.variants

\* template.monorepo is defined
HasMonorepo(t) == "monorepo" \in DOMAIN t

\* map[selectedVariant]?.dir || map.full.dir
DirOrFull(map, variant) ==
    IF variant \in DOMAIN map /\ map[variant] # "" THEN map[variant] ELSE map.full

\* Mutant: no fallback to the full variant.
GetTemplateDir_NoFallback(t, variant, monorepoAnswer) ==
    LET map == IF TruthyAnswer(monorepoAnswer) /\ HasMonorepo(t)
               THEN t.monorepo ELSE t.variants
    IN  IF variant \in DOMAIN map THEN map[variant] ELSE ""

\* getTemplateDir()
GetTemplateDir(t, variant, monorepoAnswer) ==
    IF TruthyAnswer(monorepoAnswer) /\ HasMonorepo(t)
    THEN DirOrFull(t.monorepo, variant)
    ELSE DirOrFull(t.variants, variant)

-----------------------------------------------------------------------------
(* Files and validators                                                     *)

\* fs.existsSync(p)
ExistsSync(p) == p \in files \cup dirs

\* fs.statSync(p).isFile()
IsFile(p) == p \in files

\* fs.statSync(p).isDirectory()
IsDirectory(p) == p \in dirs

\* path.join(a, b)
PathJoin(a, b) == a \o b

\* The validator of collectEntryFiles: the message, "" when the value passes.
ValidateEntryFile(value, collected) ==
    IF value = <<>> THEN "Entry file is required"
    ELSE IF ~ExistsSync(value) THEN "Entry file does not exist"
    ELSE IF ~IsFile(value) THEN "Entry file must be a file"
    ELSE IF Includes(collected, value) THEN "You have already added this entry file"
    ELSE ""

\* Mutant: the existence check is made on the typed path, not on the joined one.
ValidatePackageEntryFile_IgnoresRoot(root, value, collected) ==
    ValidateEntryFile(value, collected)

\* The validator of collectEntryFilesForPackage.
ValidatePackageEntryFile(root, value, collected) ==
    IF value = <<>> THEN "Entry file is required"
    ELSE IF ~ExistsSync(PathJoin(root, value)) THEN "Entry file does not exist at"
    ELSE IF ~IsFile(PathJoin(root, value)) THEN "Entry file must be a file"
    ELSE IF Includes(collected, value) THEN "You have already added this entry file"
    ELSE ""

\* Mutant: a name already collected is accepted again.
ValidatePackageName_RequiredOnly(value, pkgs) ==
    IF value = <<>> THEN "Package name is required" ELSE ""

\* The validator of the package name prompt.
ValidatePackageName(value, pkgs) ==
    IF value = <<>> THEN "Package name is required"
    ELSE IF \E i \in 1..Len(pkgs) : pkgs[i].name = value THEN "Package name already exists"
    ELSE ""

\* The validator of the package root prompt.
ValidatePackageRoot(value) ==
    IF value = <<>> THEN "Package root is required"
    ELSE IF ~ExistsSync(value) THEN "Package root directory does not exist"
    ELSE IF ~IsDirectory(value) THEN "Package root must be a directory"
    ELSE ""

\* pathExistsSync(getProjectPath(value))
ProjectPathExists(value) == value \in cwdEntries

\* The validator of the project name prompt.
ValidateProjectName(value) ==
    IF value = <<>> THEN "Project name is required"
    ELSE IF Includes(value, " ") THEN "Project name cannot contain spaces"
    ELSE IF ProjectPathExists(value) THEN "Project already exists"
    ELSE ""

\* A text prompt resolves with the cancel symbol (the validator is not run) or with
\* a value its validator passes; a value the validator rejects is asked again.
Resolves(value, message) == value = CancelSym \/ message = ""

\* A text prompt with a defaultValue and no validator resolves an empty input with
\* the default.
OrDefault(value, defaultValue) == IF value = <<>> THEN defaultValue ELSE value

-----------------------------------------------------------------------------
(* Answers the user can give                                                *)

EntryInputs ==
    {<<>>, <<"src", "index.ts">>, <<"src", "cli.ts">>, <<"src">>, <<"nope.ts">>, CancelSym}

PackageNameInputs == {<<>>, <<"core">>, <<"utils">>, CancelSym}

PackageRootInputs ==
    {<<>>, <<"packages", "core">>, <<"packages", "utils">>, <<"src", "index.ts">>,
     <<"nope">>, CancelSym}

FormatOptions == {"esm", "cjs", "iife"}
PluginOptions == {"exports", "unused"}

\* Results of the multiselect prompts: the ticked values, or the cancel symbol.
\* The format prompt requires a selection (it does not pass required: false).
FormatAnswers == {<<"esm", "cjs">>, <<"cjs", "esm", "iife">>, CancelSym}
PluginAnswers == {<<>>, <<"exports", "unused">>, CancelSym}

TemplateAnswers == {"typescript", "react", "cancel"}
VariantAnswers == {"basic", "full", "cancel"}

ProjectNameInputs ==
    {<<>>, <<"lib">>, <<"my", " ", "lib">>, <<"my", "\t", "lib">>, <<"old">>, CancelSym}

\* The positional argument: absent or empty (<<>>), or any string.
CliProjectNames == ProjectNameInputs \ {CancelSym}

FirstPackageInputs == {<<>>, <<"core">>, CancelSym}

GithubInputs == {<<>>, <<"me", "/", "lib">>, <<"me">>, CancelSym}

-----------------------------------------------------------------------------
(* The configuration renderers (init.ts).  The rendered text is a sequence  *)
(* of tokens [t, v]: a keyword ("kw"), an identifier ("id"), a quoted       *)
(* string ("str") or a punctuation mark ("punct"); v is a text value.       *)
(* White space and the one comment of the workspace shape are not tokens.   *)

CTok(t, v) == [t |-> t, v |-> v]
Kw(word) == CTok("kw", <<word>>)
Id(name) == CTok("id", <<name>>)
Quoted(value) == CTok("str", value)
Punct(mark) == CTok("punct", <<mark>>)
Comma == Punct(",")

\* items.join(', ') where every item is a token sequence
RECURSIVE JoinComma(_)
JoinComma(items) ==
    IF items = <<>> THEN <<>>
    ELSE IF Len(items) = 1 THEN items[1]
    ELSE items[1] \o <<Comma>> \o JoinComma(Tail(items))

\* plugins.length > 0: the length of the selection; a symbol has no length, and
\* undefined > 0 is false.
PluginsSelected(selection) == selection # CancelSym /\ Len(selection) > 0

\* files.map((file) => `'${file}'`).join(', ')
QuotedPaths(values) == JoinComma([i \in 1..Len(values) |-> <<Quoted(values[i])>>])

\* formats.map((format) => `'${format}'`).join(', ')
QuotedNames(names) == JoinComma([i \in 1..Len(names) |-> <<Quoted(<<names[i]>>)>>])

\* plugins.map((plugin) => plugin).join(', ')
PluginImports(selection) ==
    IF PluginsSelected(selection)
    THEN JoinComma([i \in 1..Len(selection) |-> <<Id(selection[i])>>])
    ELSE <<>>

\* plugins.map((plugin) => `${plugin}()`).join(', ')
PluginCalls(selection) ==
    JoinComma([i \in 1..Len(selection) |-> <<Id(selection[i]), Punct("("), Punct(")")>>])

\* Mutant: the plugin import line is emitted whatever the selection.
Imports_Always(define, selection) ==
    <<Kw("import"), Punct("{"), Id(define), Punct("}"), Kw("from"), Quoted(<<"bunup">>),
      Kw("import"), Punct("{")>> \o PluginImports(selection)
        \o <<Punct("}"), Kw("from"), Quoted(<<"bunup", "plugins">>)>>

\* const imports = plugins.length > 0 ? ... : ...
Imports(define, selection) ==
    <<Kw("import"), Punct("{"), Id(define), Punct("}"), Kw("from"), Quoted(<<"bunup">>)>>
    \o (IF PluginsSelected(selection)
        THEN <<Kw("import"), Punct("{")>> \o PluginImports(selection)
                 \o <<Punct("}"), Kw("from"), Quoted(<<"bunup", "plugins">>)>>
        ELSE <<>>)

\* createConfigFileContent: pluginsConfig opens with a comma and the format line
\* of the template closes with one.
createConfigFileContent(entries, formats, selection) ==
    LET pluginsConfig ==
            IF PluginsSelected(selection)
            THEN <<Comma, Id("plugins"), Punct(":"), Punct("[")>> \o PluginCalls(selection)
                     \o <<Punct("]"), Comma>>
            ELSE <<>>
    IN  Imports("defineConfig", selection)
        \o <<Kw("export"), Kw("default"), Id("defineConfig"), Punct("("), Punct("{"),
             Id("entry"), Punct(":"), Punct("[")>> \o QuotedPaths(entries)
        \o <<Punct("]"), Comma, Id("format"), Punct(":"), Punct("[")>> \o QuotedNames(formats)
        \o <<Punct("]"), Comma>> \o pluginsConfig
        \o <<Punct("}"), Punct(")")>>

\* One element of packagesConfig.
PackageConfig(pkg) ==
    <<Punct("{"), Id("name"), Punct(":"), Quoted(pkg.name), Comma,
      Id("root"), Punct(":"), Quoted(pkg.root), Comma,
      Id("config"), Punct(":"), Punct("{"),
      Id("entry"), Punct(":"), Punct("[")>> \o QuotedPaths(pkg.entryFiles)
    \o <<Punct("]"), Comma, Id("format"), Punct(":"), Punct("[")>>
    \o QuotedNames(pkg.outputFormats)
    \o <<Punct("]"), Comma, Punct("}"), Comma, Punct("}")>>

\* createWorkspaceConfigFileContent
createWorkspaceConfigFileContent(pkgs, selection) ==
    LET packagesConfig == JoinComma([i \in 1..Len(pkgs) |-> PackageConfig(pkgs[i])])
        pluginsConfig ==
            IF PluginsSelected(selection)
            THEN <<Comma, Punct("{"), Id("plugins"), Punct(":"), Punct("[")>>
                     \o PluginCalls(selection) \o <<Punct("]"), Comma, Punct("}")>>
            ELSE <<>>
    IN  Imports("defineWorkspace", selection)
        \o <<Kw("export"), Kw("default"), Id("defineWorkspace"), Punct("("), Punct("[")>>
        \o packagesConfig \o <<Punct("]")>> \o pluginsConfig \o <<Punct(")")>>

-----------------------------------------------------------------------------
(* The init flow (init.ts)                                                  *)

\* Mutant: the missing manifest is not detected.
ManifestMissing_Never(loaded) == FALSE

\* !packageJsonPath
ManifestMissing(loaded) == ~loaded.found

\* Whether createConfigFileContent throws: a symbol in a template literal, or
\* .map of a symbol.
ConfigThrows(entries, formats) ==
    Includes(entries, CancelSym) \/ formats = CancelSym

\* Whether createWorkspaceConfigFileContent throws.
WorkspaceConfigThrows(pkgs) ==
    \E i \in 1..Len(pkgs) : ConfigThrows(pkgs[i].entryFiles, pkgs[i].outputFormats)

IsWorkspace == TruthyAnswer(shouldSetupWorkspace)

\* `bunup init`: init() up to the workspace confirm, or to process.exit(1).
InvokeInit ==
    /\ pc = "idle"
    /\ command' = "init"
    /\ IF ManifestMissing(LoadPackageJson(packageJson))
       THEN /\ logged' = logged \cup {"package.json not found"}
            /\ pc' = "exited"
            /\ exitCode' = 1
            /\ prompted' = prompted
       ELSE /\ logged' = logged
            /\ pc' = "workspace"
            /\ exitCode' = exitCode
            /\ prompted' = prompted \cup {"workspace"}
    /\ UNCHANGED <<textVars, cancelled, diskVars, effectVars, collectVars, mergeVars, previous,
                   createVars>>

\* promptForWorkspace resolves; the first prompt of the chosen branch is shown.
AnswerWorkspace(answer) ==
    /\ pc = "workspace"
    /\ shouldSetupWorkspace' = answer
    /\ cancelled' = (cancelled \/ answer = "cancel")
    /\ pc' = IF TruthyAnswer(answer) THEN "packageName" ELSE "entryFile"
    /\ prompted' = prompted \cup {IF TruthyAnswer(answer) THEN "packageName" ELSE "entryFile"}
    /\ UNCHANGED <<textVars, command, exitCode, logged, diskVars, effectVars, entryFiles,
                   outputFormats, plugins, packages, packageName, packageRoot,
                   mergeVars, previous, createVars>>

\* collectEntryFiles: the entry file prompt is submitted.
AnswerEntryFile(value) ==
    LET resolves == Resolves(value, ValidateEntryFile(value, entryFiles))
    IN  /\ pc = "entryFile"
        /\ cancelled' = (cancelled \/ value = CancelSym)
        /\ entryFiles' = IF resolves THEN Append(entryFiles, value) ELSE entryFiles
        /\ pc' = IF resolves THEN "addEntry" ELSE pc
        /\ prompted' = IF resolves THEN prompted \cup {"addEntry"} ELSE prompted
        /\ UNCHANGED <<textVars, command, exitCode, logged, diskVars, effectVars,
                       shouldSetupWorkspace, outputFormats, plugins, packages,
                       packageName, packageRoot, mergeVars, previous, createVars>>

\* collectEntryFiles: 'Do you want to add another entry file?' resolves.
AnswerAddEntry(shouldAddMore) ==
    /\ pc = "addEntry"
    /\ TruthyAnswer(shouldAddMore) => Len(entryFiles) < MaxEntries
    /\ cancelled' = (cancelled \/ shouldAddMore = "cancel")
    /\ pc' = IF TruthyAnswer(shouldAddMore) THEN "entryFile" ELSE "formats"
    /\ prompted' = prompted \cup {IF TruthyAnswer(shouldAddMore) THEN "entryFile" ELSE "formats"}
    /\ UNCHANGED <<textVars, command, exitCode, logged, diskVars, effectVars, collectVars,
                   mergeVars, previous, createVars>>

\* collectWorkspacePackages: the package name prompt is submitted; the options of
\* the root prompt interpolate the name.
AnswerPackageName(value) ==
    LET resolves == Resolves(value, ValidatePackageName(value, packages))
        throws == value = CancelSym
    IN  /\ pc = "packageName"
        /\ cancelled' = (cancelled \/ value = CancelSym)
        /\ packageName' = IF resolves THEN value ELSE packageName
        /\ pc' = IF throws THEN "crashed" ELSE IF resolves THEN "packageRoot" ELSE pc
        /\ exitCode' = IF throws THEN 1 ELSE exitCode
        /\ prompted' = IF resolves /\ ~throws THEN prompted \cup {"packageRoot"} ELSE prompted
        /\ UNCHANGED <<textVars, command, logged, diskVars, effectVars, shouldSetupWorkspace,
                       entryFiles, outputFormats, plugins, packages, packageRoot,
                       mergeVars, previous, createVars>>

\* collectWorkspacePackages: the package root prompt is submitted;
\* collectEntryFilesForPackage starts and its prompt interpolates the root.
AnswerPackageRoot(value) ==
    LET resolves == Resolves(value, ValidatePackageRoot(value))
        throws == value = CancelSym
    IN  /\ pc = "packageRoot"
        /\ cancelled' = (cancelled \/ value = CancelSym)
        /\ packageRoot' = IF resolves THEN value ELSE packageRoot
        /\ entryFiles' = IF resolves THEN <<>> ELSE entryFiles
        /\ pc' = IF throws THEN "crashed" ELSE IF resolves THEN "packageEntryFile" ELSE pc
        /\ exitCode' = IF throws THEN 1 ELSE exitCode
        /\ prompted' = IF resolves /\ ~throws
                       THEN prompted \cup {"packageEntryFile"} ELSE prompted
        /\ UNCHANGED <<textVars, command, logged, diskVars, effectVars, shouldSetupWorkspace,
                       outputFormats, plugins, packages, packageName,
                       mergeVars, previous, createVars>>

\* collectEntryFilesForPackage: the entry file prompt is submitted.
AnswerPackageEntryFile(value) ==
    LET resolves == Resolves(value, ValidatePackageEntryFile(packageRoot, value, entryFiles))
    IN  /\ pc = "packageEntryFile"
        /\ cancelled' = (cancelled \/ value = CancelSym)
        /\ entryFiles' = IF resolves THEN Append(entryFiles, value) ELSE entryFiles
        /\ pc' = IF resolves THEN "addPackageEntry" ELSE pc
        /\ prompted' = IF resolves THEN prompted \cup {"addPackageEntry"} ELSE prompted
        /\ UNCHANGED <<textVars, command, exitCode, logged, diskVars, effectVars,
                       shouldSetupWorkspace, outputFormats, plugins, packages,
                       packageName, packageRoot, mergeVars, previous, createVars>>

\* collectEntryFilesForPackage: 'add another entry file for this package?' resolves.
AnswerAddPackageEntry(shouldAddMore) ==
    /\ pc = "addPackageEntry"
    /\ TruthyAnswer(shouldAddMore) => Len(entryFiles) < MaxEntries
    /\ cancelled' = (cancelled \/ shouldAddMore = "cancel")
    /\ pc' = IF TruthyAnswer(shouldAddMore) THEN "packageEntryFile" ELSE "formats"
    /\ prompted' = prompted \cup
           {IF TruthyAnswer(shouldAddMore) THEN "packageEntryFile" ELSE "formats"}
    /\ UNCHANGED <<textVars, command, exitCode, logged, diskVars, effectVars, collectVars,
                   mergeVars, previous, createVars>>

\* selectOutputFormats resolves: in the single-package flow the plugin prompt follows,
\* in collectWorkspacePackages the package is pushed and 'add another package?' asked.
AnswerFormats(selected) ==
    /\ pc = "formats"
    /\ cancelled' = (cancelled \/ selected = CancelSym)
    /\ outputFormats' = selected
    /\ packages' = IF IsWorkspace
                   THEN Append(packages, [name |-> packageName, root |-> packageRoot,
                                          entryFiles |-> entryFiles,
                                          outputFormats |-> selected])
                   ELSE packages
    /\ pc' = IF IsWorkspace THEN "addPackage" ELSE "plugins"
    /\ prompted' = prompted \cup {IF IsWorkspace THEN "addPackage" ELSE "plugins"}
    /\ UNCHANGED <<textVars, command, exitCode, logged, diskVars, effectVars, shouldSetupWorkspace,
                   entryFiles, plugins, packageName, packageRoot, mergeVars, previous,
                   createVars>>

\* collectWorkspacePackages: 'Do you want to add another package?' resolves.
AnswerAddPackage(shouldAddMore) ==
    /\ pc = "addPackage"
    /\ TruthyAnswer(shouldAddMore) => Len(packages) < MaxPackages
    /\ cancelled' = (cancelled \/ shouldAddMore = "cancel")
    /\ pc' = IF TruthyAnswer(shouldAddMore) THEN "packageName" ELSE "plugins"
    /\ prompted' = prompted \cup {IF TruthyAnswer(shouldAddMore) THEN "packageName" ELSE "plugins"}
    /\ UNCHANGED <<textVars, command, exitCode, logged, diskVars, effectVars, collectVars,
                   mergeVars, previous, createVars>>

\* selectProductivityPlugins resolves; the configuration is rendered and written
\* (generateConfiguration, generateWorkspaceConfiguration).
AnswerPlugins(selected) ==
    LET throws == IF IsWorkspace THEN WorkspaceConfigThrows(packages)
                  ELSE ConfigThrows(entryFiles, outputFormats)
        content == IF IsWorkspace THEN createWorkspaceConfigFileContent(packages, selected)
                   ELSE createConfigFileContent(entryFiles, outputFormats, selected)
    IN  /\ pc = "plugins"
        /\ cancelled' = (cancelled \/ selected = CancelSym)
        /\ plugins' = selected
        /\ IF throws
           THEN /\ pc' = "crashed"
                /\ exitCode' = 1
                /\ UNCHANGED <<configWrites, configFile>>
           ELSE /\ pc' = "scripts"
                /\ exitCode' = exitCode
                /\ configWrites' = configWrites + 1
                /\ configFile' = FileOf(content)
        /\ UNCHANGED <<command, logged, prompted, diskVars, installs, outros,
                       shouldSetupWorkspace, entryFiles, outputFormats, packages,
                       packageName, packageRoot, mergeVars, previous, createVars,
                       projectText>>

\* handleBuildScripts or handleWorkspaceBuildScripts runs up to its confirm, or to
\* its end.
HandleBuildScripts ==
    /\ pc = "scripts"
    /\ HandleBuildScriptsCall(IsWorkspace)
    /\ UNCHANGED <<textVars, command, exitCode, logged, cancelled, files, dirs, cwdEntries,
                   effectVars, collectVars, previous, createVars>>

\* The 'Installing bunup' task ends; on success the closing summary is shown.
Install(ok) ==
    /\ pc = "install"
    /\ command = "init"
    /\ installs' = installs + 1
    /\ outros' = IF ok THEN outros + 1 ELSE outros
    /\ pc' = IF ok THEN "done" ELSE "crashed"
    /\ exitCode' = IF ok THEN 0 ELSE 1
    /\ UNCHANGED <<textVars, command, logged, prompted, cancelled, diskVars, configWrites,
                   collectVars, mergeVars, previous, createVars>>

-----------------------------------------------------------------------------
(* Placeholder substitution (create.ts, the 'Making the project yours' task) *)
(* A file's text is a sequence of pieces; a placeholder literal is one       *)
(* piece, and so is every "/" of the GitHub answer.                          *)

\* The value of a variable that was never assigned.
UndefinedValue == <<"js:undefined">>

\* String.prototype.split('/')
RECURSIVE Split(_)
Split(value) ==
    IF ~Includes(value, "/") THEN <<value>>
    ELSE LET i == CHOOSE k \in 1..Len(value) :
                      value[k] = "/" /\ \A j \in 1..(k - 1) : value[j] # "/"
         IN  <<SubSeq(value, 1, i - 1)>> \o Split(SubSeq(value, i + 1, Len(value)))

\* Array destructuring: the element at position n, undefined past the end.
ElementAt(parts, n) == IF n <= Len(parts) THEN parts[n] ELSE UndefinedValue

\* contents.replace(new RegExp(from, 'g'), to), on every occurrence; the pair of an
\* undefined replacement (an answer without a slash) is skipped.
RECURSIVE ReplaceAll(_, _, _)
ReplaceAll(text, from, to) ==
    IF to = UndefinedValue \/ text = <<>> THEN text
    ELSE (IF Head(text) = from THEN to ELSE <<Head(text)>>)
         \o ReplaceAll(Tail(text), from, to)

\* const replacements = [...]; replacements.push(...) in a monorepo
Replacements(t, info, name, monorepoAnswer, firstPackage) ==
    LET parts == Split(info)
        githubUsername == ElementAt(parts, 1)
        githubRepoName == ElementAt(parts, 2)
    IN  <<[from |-> t.placeholders.GITHUB_REPO, to |-> githubRepoName],
          [from |-> t.placeholders.GITHUB_USERNAME, to |-> githubUsername],
          [from |-> t.placeholders.DEFAULT_NAME, to |-> name]>>
        \o (IF TruthyAnswer(monorepoAnswer) /\ firstPackage # <<>>
            THEN <<[from |-> t.placeholders.MONOREPO_FIRST_PACKAGE, to |-> firstPackage]>>
            ELSE <<>>)

\* replaceInFile({from: [...], to: [...]}): the pairs are applied one after the
\* other, each to the text the one before it left.
RECURSIVE MakeReplacements(_, _)
MakeReplacements(text, replacements) ==
    IF replacements = <<>> THEN text
    ELSE MakeReplacements(ReplaceAll(text, replacements[1].from, replacements[1].to),
                          Tail(replacements))

\* A file of the downloaded template: every placeholder of the template once.
TemplateText(t) ==
    <<t.placeholders.DEFAULT_NAME, "by", t.placeholders.GITHUB_USERNAME, "/",
      t.placeholders.GITHUB_REPO, "packages", t.placeholders.MONOREPO_FIRST_PACKAGE>>

-----------------------------------------------------------------------------
(* The create flow (create.ts)                                              *)

PromptPositions ==
    {"selectTemplate", "selectVariant", "confirmMonorepo", "projectName",
     "firstPackage", "github"}

\* What follows once the project name is known: getProjectPath(projectName) throws
\* on a symbol; the first package name is asked in a monorepo.
AfterProjectName(name, monorepoAnswer) ==
    IF name = CancelSym THEN "crashed"
    ELSE IF TruthyAnswer(monorepoAnswer) THEN "firstPackage"
    ELSE "github"

\* projectNameFromCli || (await text(...))
AfterMonorepo(cliName, monorepoAnswer) ==
    IF cliName # <<>> THEN AfterProjectName(cliName, monorepoAnswer) ELSE "projectName"

\* if (template.monorepo) ...
AfterVariant(t, cliName) ==
    IF HasMonorepo(t) THEN "confirmMonorepo" ELSE AfterMonorepo(cliName, "no")

\* if (template.variants.basic) ...
AfterTemplate(t, cliName) ==
    IF HasBasic(t) THEN "selectVariant" ELSE AfterVariant(t, cliName)

\* The name held by projectName once the flow is at position next.
NameAt(next) ==
    IF next \in {"firstPackage", "github"} /\ projectNameFromCli # <<>>
    THEN projectNameFromCli
    ELSE projectName

\* The prompts shown once the flow is at position next.
PromptedAt(next) ==
    IF next \in PromptPositions THEN prompted \cup {next} ELSE prompted

\* `bunup create [project-name]`: createProject() up to the template select.
InvokeCreate(cliName) ==
    /\ pc = "idle"
    /\ command' = "create"
    /\ projectNameFromCli' = cliName
    /\ pc' = "selectTemplate"
    /\ prompted' = prompted \cup {"selectTemplate"}
    /\ UNCHANGED <<textVars, exitCode, logged, cancelled, diskVars, effectVars, collectVars,
                   mergeVars, previous, template, selectedVariant, useMonorepo,
                   projectName, monorepoFirstPackageName, githubRepoInfo, templateDir,
                   downloads, customized>>

\* The template select resolves.
AnswerTemplate(selectedTemplateType) ==
    LET t == FindTemplate(selectedTemplateType)
        next == AfterTemplate(t, projectNameFromCli)
    IN  /\ pc = "selectTemplate"
        /\ cancelled' = (cancelled \/ selectedTemplateType = "cancel")
        /\ IF t = NoTemplate
           THEN /\ logged' = logged \cup {"Invalid template"}
                /\ pc' = "exited"
                /\ exitCode' = 1
                /\ UNCHANGED <<prompted, template, projectName>>
           ELSE /\ template' = t
                /\ pc' = next
                /\ projectName' = NameAt(next)
                /\ prompted' = PromptedAt(next)
                /\ UNCHANGED <<logged, exitCode>>
        /\ UNCHANGED <<textVars, command, diskVars, effectVars, collectVars, mergeVars, previous,
                       projectNameFromCli, selectedVariant, useMonorepo,
                       monorepoFirstPackageName, githubRepoInfo, templateDir,
                       downloads, customized>>

\* The variant select resolves.
AnswerVariant(variant) ==
    LET next == AfterVariant(template, projectNameFromCli)
    IN  /\ pc = "selectVariant"
        /\ cancelled' = (cancelled \/ variant = "cancel")
        /\ selectedVariant' = variant
        /\ pc' = next
        /\ projectName' = NameAt(next)
        /\ prompted' = PromptedAt(next)
        /\ UNCHANGED <<textVars, command, exitCode, logged, diskVars, effectVars, collectVars,
                       mergeVars, previous, projectNameFromCli, template, useMonorepo,
                       monorepoFirstPackageName, githubRepoInfo, templateDir,
                       downloads, customized>>

\* 'Do you want to create a monorepo?' resolves.
AnswerMonorepo(answer) ==
    LET next == AfterMonorepo(projectNameFromCli, answer)
    IN  /\ pc = "confirmMonorepo"
        /\ cancelled' = (cancelled \/ answer = "cancel")
        /\ useMonorepo' = answer
        /\ pc' = next
        /\ projectName' = NameAt(next)
        /\ prompted' = PromptedAt(next)
        /\ UNCHANGED <<textVars, command, exitCode, logged, diskVars, effectVars, collectVars,
                       mergeVars, previous, projectNameFromCli, template,
                       selectedVariant, monorepoFirstPackageName, githubRepoInfo,
                       templateDir, downloads, customized>>

\* The project name prompt is submitted.
AnswerProjectName(value) ==
    LET resolves == Resolves(value, ValidateProjectName(value))
        next == IF resolves THEN AfterProjectName(value, useMonorepo) ELSE pc
    IN  /\ pc = "projectName"
        /\ cancelled' = (cancelled \/ value = CancelSym)
        /\ projectName' = IF resolves THEN value ELSE projectName
        /\ pc' = next
        /\ exitCode' = IF next = "crashed" THEN 1 ELSE exitCode
        /\ prompted' = IF resolves THEN PromptedAt(next) ELSE prompted
        /\ UNCHANGED <<textVars, command, logged, diskVars, effectVars, collectVars, mergeVars,
                       previous, projectNameFromCli, template, selectedVariant,
                       useMonorepo, monorepoFirstPackageName, githubRepoInfo,
                       templateDir, downloads, customized>>

\* 'Enter the name of the first package' resolves.
AnswerFirstPackage(value) ==
    /\ pc = "firstPackage"
    /\ cancelled' = (cancelled \/ value = CancelSym)
    /\ monorepoFirstPackageName' = OrDefault(value, <<"package-1">>)
    /\ pc' = "github"
    /\ prompted' = prompted \cup {"github"}
    /\ UNCHANGED <<textVars, command, exitCode, logged, diskVars, effectVars, collectVars,
                   mergeVars, previous, projectNameFromCli, template, selectedVariant,
                   useMonorepo, projectName, githubRepoInfo, templateDir, downloads,
                   customized>>

\* The GitHub prompt resolves; githubRepoInfo.split('/') throws on a symbol; the
\* template directory is resolved and the task list starts.
AnswerGithub(value) ==
    /\ pc = "github"
    /\ cancelled' = (cancelled \/ value = CancelSym)
    /\ githubRepoInfo' = OrDefault(value, <<"username", "/", "repo-name">>)
    /\ IF value = CancelSym
       THEN /\ pc' = "crashed"
            /\ exitCode' = 1
            /\ templateDir' = templateDir
       ELSE /\ pc' = "download"
            /\ exitCode' = exitCode
            /\ templateDir' = GetTemplateDir(template, selectedVariant, useMonorepo)
    /\ UNCHANGED <<textVars, command, logged, prompted, diskVars, effectVars, collectVars,
                   mergeVars, previous, projectNameFromCli, template, selectedVariant,
                   useMonorepo, projectName, monorepoFirstPackageName, downloads,
                   customized>>

\* The 'Downloading template' task ends.
Download(ok) ==
    /\ pc = "download"
    /\ downloads' = Append(downloads, [dir |-> templateDir, name |-> projectName])
    /\ cwdEntries' = IF ok THEN cwdEntries \cup {projectName} ELSE cwdEntries
    /\ projectText' = IF ok THEN TemplateText(template) ELSE projectText
    /\ pc' = IF ok THEN "customize" ELSE "crashed"
    /\ exitCode' = IF ok THEN exitCode ELSE 1
    /\ UNCHANGED <<configFile, command, logged, prompted, cancelled, packageJson, files,
                   dirs, effectVars, collectVars, mergeVars, previous, projectNameFromCli,
                   template, selectedVariant, useMonorepo, projectName,
                   monorepoFirstPackageName, githubRepoInfo, templateDir, customized>>

\* The 'Making the project yours' task ends: the placeholders are replaced in the
\* project's files; path.join throws on a symbol as the first package name; a
\* failing task leaves the files as they were.  On success the closing summary is
\* shown.
Customize(ok) ==
    /\ pc = "customize"
    /\ (TruthyAnswer(useMonorepo) /\ monorepoFirstPackageName = CancelSym) => ~ok
    /\ customized' = customized + 1
    /\ projectText' =
           IF ok
           THEN MakeReplacements(projectText,
                    Replacements(template, githubRepoInfo, projectName, useMonorepo,
                                 monorepoFirstPackageName))
           ELSE projectText
    /\ outros' = IF ok THEN outros + 1 ELSE outros
    /\ pc' = IF ok THEN "done" ELSE "crashed"
    /\ exitCode' = IF ok THEN 0 ELSE 1
    /\ UNCHANGED <<configFile, command, logged, prompted, cancelled, diskVars,
                   configWrites, installs, collectVars, mergeVars, previous,
                   projectNameFromCli, template, selectedVariant, useMonorepo,
                   projectName, monorepoFirstPackageName, githubRepoInfo, templateDir,
                   downloads>>

-----------------------------------------------------------------------------
(* Manifests the merge is run on *)

ScriptNames == {"test", "build", "dev"}
ScriptCommands == {"", "old", "bunup"}

RECURSIVE Tables(_)
Tables(keys) ==
    IF keys = <<>> THEN {<<>>}
    ELSE {<<Member(keys[1], Str(c))>> \o rest : c \in ScriptCommands, rest \in Tables(Tail(keys))}

ScriptTables == UNION {Tables(keys) : keys \in DistinctSeqs(ScriptNames, MaxScripts)}

\* Top-level layouts: no scripts field, scripts first, in the middle, last.
ManifestsWith(tables) ==
    {<<Member("name", Str("pkg"))>>, <<>>}
    \cup {<<Member("scripts", Obj(t))>> : t \in tables}
    \cup {<<Member("name", Str("pkg")), Member("scripts", Obj(t))>> : t \in tables}
    \cup {<<Member("scripts", Obj(t)), Member("license", Str("MIT"))>> : t \in tables}
    \cup {<<Member("name", Str("pkg")), Member("scripts", Obj(t)),
            Member("license", Str("MIT"))>> : t \in tables}

Manifests == ManifestsWith(ScriptTables)

\* The locals of a process that has just started.
Fresh ==
    /\ logged = {}
    /\ prompted = {}
    /\ cancelled = FALSE
    /\ configWrites = 0
    /\ installs = 0
    /\ outros = 0
    /\ shouldSetupWorkspace = "no"
    /\ entryFiles = <<>>
    /\ outputFormats = <<>>
    /\ plugins = <<>>
    /\ packages = <<>>
    /\ packageName = <<>>
    /\ packageRoot = <<>>
    /\ conflictingScripts = <<>>
    /\ merge = NoMerge
    /\ projectNameFromCli = <<>>
    /\ template = NoTemplate
    /\ selectedVariant = "full"
    /\ useMonorepo = "no"
    /\ projectName = <<>>
    /\ monorepoFirstPackageName = <<>>
    /\ githubRepoInfo = <<>>
    /\ templateDir = ""
    /\ downloads = <<>>
    /\ customized = 0
    /\ configFile = NoFile
    /\ projectText = <<>>

-----------------------------------------------------------------------------
(* The merge handlers on their own: called with the path of a manifest that  *)
(* was found, on every manifest of Manifests, and called again on the        *)
(* manifest they left.                                                       *)

MergeInit ==
    /\ command = "init"
    /\ pc = "call"
    /\ exitCode = -1
    /\ packageJson \in {FileOf(JSONStringify(Obj(m))) : m \in Manifests}
    /\ files = {}
    /\ dirs = {}
    /\ cwdEntries = {}
    /\ previous = NoMerge
    /\ Fresh

MergeCall(isWorkspace) ==
    /\ pc = "call"
    /\ HandleBuildScriptsCall(isWorkspace)
    /\ UNCHANGED <<textVars, command, exitCode, logged, cancelled, files, dirs, cwdEntries,
                   effectVars, collectVars, previous, createVars>>

\* The next invocation reaches its merge step on the manifest this one left.
MergeAgain ==
    /\ pc = "install"
    /\ previous' = merge
    /\ merge' = NoMerge
    /\ conflictingScripts' = <<>>
    /\ logged' = {}
    /\ prompted' = {}
    /\ cancelled' = FALSE
    /\ pc' = "call"
    /\ UNCHANGED <<textVars, command, exitCode, diskVars, effectVars, collectVars, createVars>>

MergeNext ==
    \/ \E isWorkspace \in BOOLEAN : MergeCall(isWorkspace)
    \/ \E shouldOverride \in ConfirmAnswers : AnswerOverride(shouldOverride)
    \/ MergeAgain

SpecMerge == MergeInit /\ [][MergeNext]_vars

-----------------------------------------------------------------------------
(* The command line (index.ts): one invocation of `init` or of `create`     *)

FlowManifests ==
    {<<Member("name", Str("pkg"))>>,
     <<Member("name", Str("pkg")), Member("scripts", Obj(<<Member("build", Str("old"))>>))>>}

Init ==
    /\ command = "none"
    /\ pc = "idle"
    /\ exitCode = -1
    /\ packageJson \in {NoFile} \cup {FileOf(JSONStringify(Obj(m))) : m \in FlowManifests}
    /\ files = {<<"src", "index.ts">>, <<"src", "cli.ts">>,
                <<"packages", "core", "src", "index.ts">>,
                <<"packages", "core", "src", "cli.ts">>,
                <<"packages", "utils", "src", "index.ts">>}
    /\ dirs = {<<"src">>, <<"packages">>, <<"packages", "core">>, <<"packages", "utils">>,
               <<"packages", "core", "src">>, <<"packages", "utils", "src">>}
    /\ cwdEntries = {<<"old">>, <<"src">>, <<"packages">>}
    /\ previous = NoMerge
    /\ Fresh

Next ==
    \/ InvokeInit
    \/ \E answer \in ConfirmAnswers : AnswerWorkspace(answer)
    \/ \E value \in EntryInputs : AnswerEntryFile(value)
    \/ \E answer \in ConfirmAnswers : AnswerAddEntry(answer)
    \/ \E value \in PackageNameInputs : AnswerPackageName(value)
    \/ \E value \in PackageRootInputs : AnswerPackageRoot(value)
    \/ \E value \in EntryInputs : AnswerPackageEntryFile(value)
    \/ \E answer \in ConfirmAnswers : AnswerAddPackageEntry(answer)
    \/ \E selected \in FormatAnswers : AnswerFormats(selected)
    \/ \E answer \in ConfirmAnswers : AnswerAddPackage(answer)
    \/ \E selected \in PluginAnswers : AnswerPlugins(selected)
    \/ HandleBuildScripts
    \/ \E answer \in ConfirmAnswers : AnswerOverride(answer)
    \/ \E ok \in BOOLEAN : Install(ok)
    \/ \E cliName \in CliProjectNames : InvokeCreate(cliName)
    \/ \E selected \in TemplateAnswers : AnswerTemplate(selected)
    \/ \E variant \in VariantAnswers : AnswerVariant(variant)
    \/ \E answer \in ConfirmAnswers : AnswerMonorepo(answer)
    \/ \E value \in ProjectNameInputs : AnswerProjectName(value)
    \/ \E value \in FirstPackageInputs : AnswerFirstPackage(value)
    \/ \E value \in GithubInputs : AnswerGithub(value)
    \/ \E ok \in BOOLEAN : Download(ok)
    \/ \E ok \in BOOLEAN : Customize(ok)

Spec == Init /\ [][Next]_vars

-----------------------------------------------------------------------------
(* The template directory resolver on its own, on every descriptor the      *)
(* Template type admits                                                     *)

VariantMaps(basicDir, fullDir) ==
    {[full |-> fullDir], [basic |-> basicDir, full |-> fullDir]}

Descriptors ==
    {[type |-> "typescript", defaultName |-> <<"my-ts-lib">>, variants |-> v]
        : v \in VariantMaps("ts-lib-basic", "ts-lib")}
    \cup {[type |-> "typescript", defaultName |-> <<"my-ts-lib">>, variants |-> v,
           monorepo |-> m]
        : v \in VariantMaps("ts-lib-basic", "ts-lib"),
          m \in VariantMaps("ts-lib-monorepo-basic", "ts-lib-monorepo")}
    \cup {[type |-> "react", defaultName |-> <<"my-react-lib">>, variants |-> v]
        : v \in VariantMaps("react-lib-basic", "react-lib")}
    \cup {[type |-> "react", defaultName |-> <<"my-react-lib">>, variants |-> v,
           monorepo |-> m]
        : v \in VariantMaps("react-lib-basic", "react-lib"),
          m \in VariantMaps("react-lib-monorepo-basic", "react-lib-monorepo")}

TemplateDirInit ==
    /\ command = "create"
    /\ pc = "resolve"
    /\ exitCode = -1
    /\ packageJson = NoFile
    /\ files = {}
    /\ dirs = {}
    /\ cwdEntries = {}
    /\ previous = NoMerge
    /\ logged = {}
    /\ prompted = {}
    /\ cancelled = FALSE
    /\ configWrites = 0
    /\ installs = 0
    /\ outros = 0
    /\ shouldSetupWorkspace = "no"
    /\ entryFiles = <<>>
    /\ outputFormats = <<>>
    /\ plugins = <<>>
    /\ packages = <<>>
    /\ packageName = <<>>
    /\ packageRoot = <<>>
    /\ conflictingScripts = <<>>
    /\ merge = NoMerge
    /\ projectNameFromCli = <<>>
    /\ template \in Descriptors
    /\ selectedVariant \in VariantAnswers
    /\ useMonorepo \in ConfirmAnswers
    /\ projectName = <<"lib">>
    /\ monorepoFirstPackageName = <<>>
    /\ githubRepoInfo = <<>>
    /\ templateDir = ""
    /\ downloads = <<>>
    /\ customized = 0
    /\ configFile = NoFile
    /\ projectText = <<>>

\* const templateDir = getTemplateDir()
ResolveTemplateDir ==
    /\ pc = "resolve"
    /\ templateDir' = GetTemplateDir(template, selectedVariant, useMonorepo)
    /\ pc' = "resolved"
    /\ UNCHANGED <<textVars, command, exitCode, logged, prompted, cancelled, diskVars, effectVars,
                   collectVars, mergeVars, previous, projectNameFromCli, template,
                   selectedVariant, useMonorepo, projectName, monorepoFirstPackageName,
                   githubRepoInfo, downloads, customized>>

TemplateDirNext == ResolveTemplateDir

SpecTemplateDir == TemplateDirInit /\ [][TemplateDirNext]_vars

-----------------------------------------------------------------------------
(* The renderers on their own: generateConfiguration and                    *)
(* generateWorkspaceConfiguration on every collected input of the sets      *)
(* below                                                                    *)

RenderPaths == {<<"src", "index.ts">>, <<"src", "cli.ts">>}
RenderEntryLists == SeqsUpTo(RenderPaths, MaxEntries) \ {<<>>}
RenderFormats == DistinctSeqs(FormatOptions, Cardinality(FormatOptions))
RenderPlugins == DistinctSeqs(PluginOptions, Cardinality(PluginOptions))

PackageSamples ==
    {[name |-> <<"core">>, root |-> <<"packages", "core">>,
      entryFiles |-> <<<<"src", "index.ts">>>>, outputFormats |-> <<"esm", "cjs">>],
     [name |-> <<"utils">>, root |-> <<"packages", "utils">>,
      entryFiles |-> <<<<"src", "index.ts">>, <<"src", "cli.ts">>>>,
      outputFormats |-> <<>>],
     [name |-> <<"ui">>, root |-> <<"packages", "ui">>,
      entryFiles |-> <<<<"src", "cli.ts">>>>, outputFormats |-> <<"iife">>]}

RenderPackageLists == SeqsUpTo(PackageSamples, MaxPackages) \ {<<>>}

RenderInit ==
    /\ command = "init"
    /\ pc = "render"
    /\ exitCode = -1
    /\ packageJson = NoFile
    /\ files = {}
    /\ dirs = {}
    /\ cwdEntries = {}
    /\ previous = NoMerge
    /\ logged = {}
    /\ prompted = {}
    /\ cancelled = FALSE
    /\ configWrites = 0
    /\ installs = 0
    /\ outros = 0
    /\ shouldSetupWorkspace \in {"yes", "no"}
    /\ IF IsWorkspace
       THEN /\ entryFiles = <<>>
            /\ outputFormats = <<>>
            /\ packages \in RenderPackageLists
       ELSE /\ entryFiles \in RenderEntryLists
            /\ outputFormats \in RenderFormats
            /\ packages = <<>>
    /\ plugins \in RenderPlugins
    /\ packageName = <<>>
    /\ packageRoot = <<>>
    /\ conflictingScripts = <<>>
    /\ merge = NoMerge
    /\ projectNameFromCli = <<>>
    /\ template = NoTemplate
    /\ selectedVariant = "full"
    /\ useMonorepo = "no"
    /\ projectName = <<>>
    /\ monorepoFirstPackageName = <<>>
    /\ githubRepoInfo = <<>>
    /\ templateDir = ""
    /\ downloads = <<>>
    /\ customized = 0
    /\ configFile = NoFile
    /\ projectText = <<>>

\* generateConfiguration: Bun.write(configFilePath, createConfigFileContent(...))
generateConfiguration ==
    /\ pc = "render"
    /\ ~IsWorkspace
    /\ configFile' = FileOf(createConfigFileContent(entryFiles, outputFormats, plugins))
    /\ configWrites' = configWrites + 1
    /\ pc' = "rendered"
    /\ UNCHANGED <<command, exitCode, logged, prompted, cancelled, diskVars, installs,
                   outros, collectVars, mergeVars, previous, createVars, projectText>>

\* generateWorkspaceConfiguration:
\* Bun.write(configFilePath, createWorkspaceConfigFileContent(...))
generateWorkspaceConfiguration ==
    /\ pc = "render"
    /\ IsWorkspace
    /\ configFile' = FileOf(createWorkspaceConfigFileContent(packages, plugins))
    /\ configWrites' = configWrites + 1
    /\ pc' = "rendered"
    /\ UNCHANGED <<command, exitCode, logged, prompted, cancelled, diskVars, installs,
                   outros, collectVars, mergeVars, previous, createVars, projectText>>

RenderNext ==
    \/ generateConfiguration
    \/ generateWorkspaceConfiguration

SpecRender == RenderInit /\ [][RenderNext]_vars

-----------------------------------------------------------------------------
(* The substitution task on its own: on every text of at most MaxText       *)
(* pieces and every supplied value of ValueSamples                          *)

\* Supplied values: plain ones, and ones that hold a placeholder literal.
ValueSamples == {<<"lib">>, <<"username">>, <<"package-1", "x">>}

\* Answers of the GitHub prompt: username/repo, and one without a slash.
GithubValues ==
    {user \o <<"/">> \o repo : user \in ValueSamples, repo \in ValueSamples}
    \cup {<<"me">>}

\* The pieces a file of the template t is made of.
TextPieces(t) ==
    {t.placeholders.GITHUB_REPO, t.placeholders.GITHUB_USERNAME,
     t.placeholders.DEFAULT_NAME, t.placeholders.MONOREPO_FIRST_PACKAGE, "x"}

ReplaceInit ==
    /\ command = "create"
    /\ pc = "customize"
    /\ exitCode = -1
    /\ packageJson = NoFile
    /\ files = {}
    /\ dirs = {}
    /\ cwdEntries = {}
    /\ previous = NoMerge
    /\ logged = {}
    /\ prompted = {}
    /\ cancelled = FALSE
    /\ configWrites = 0
    /\ installs = 0
    /\ outros = 0
    /\ shouldSetupWorkspace = "no"
    /\ entryFiles = <<>>
    /\ outputFormats = <<>>
    /\ plugins = <<>>
    /\ packages = <<>>
    /\ packageName = <<>>
    /\ packageRoot = <<>>
    /\ conflictingScripts = <<>>
    /\ merge = NoMerge
    /\ projectNameFromCli = <<>>
    /\ template \in {TsTemplate, ReactTemplate}
    /\ selectedVariant = "full"
    /\ useMonorepo \in {"yes", "no"}
    /\ projectName \in ValueSamples
    /\ monorepoFirstPackageName \in
           IF TruthyAnswer(useMonorepo) /\ HasMonorepo(template)
           THEN ValueSamples ELSE {<<>>}
    /\ githubRepoInfo \in GithubValues
    /\ templateDir = GetTemplateDir(template, selectedVariant, useMonorepo)
    /\ downloads = <<[dir |-> templateDir, name |-> projectName]>>
    /\ customized = 0
    /\ configFile = NoFile
    /\ projectText \in SeqsUpTo(TextPieces(template), MaxText)

ReplaceNext == \E ok \in BOOLEAN : Customize(ok)

SpecReplace == ReplaceInit /\ [][ReplaceNext]_vars

-----------------------------------------------------------------------------
(* Properties of the manifest script merge (checked under SpecMerge)        *)

MembersOf(file) == JSONParse(file.text).f
ScriptsOf(file) == ExistingScripts(JSONParse(file.text))
NewKeys == {"build", "dev"}
Accepted(m) == m.finished /\ m.wrote /\ m.answer \in {"none", "yes"}

\* C1: once the handler has detected conflicts, a new script key (build, dev) is
\* reported as conflicting if and only if it is present in the existing scripts
\* table, whatever its value (the empty command included).
C1_ConflictIffPresent ==
    merge.reached =>
        \A key \in NewKeys :
            Includes(conflictingScripts, key) <=> HasKey(ScriptsOf(merge.before), key)

\* C2: when a confirmation was asked and the user declined it, the manifest was not
\* written: the file is identical to the one that was loaded.
C2_DeclineLeavesManifest ==
    (merge.finished /\ merge.asked /\ merge.answer = "no") =>
        /\ ~merge.wrote
        /\ packageJson = merge.before
        /\ MembersOf(packageJson) = MembersOf(merge.before)

\* A declined confirmation with one conflicting key and one new key that did not
\* conflict.
C2_Witness ==
    /\ merge.finished /\ merge.asked /\ merge.answer = "no"
    /\ conflictingScripts = <<"build">>
    /\ ~HasKey(ScriptsOf(merge.before), "dev")

\* C3: when neither build nor dev is present in the existing table, no confirmation
\* is asked and the written table is the existing table, in its order and with its
\* values, followed by build and dev with the new commands.
C3_NoConflictAppends ==
    (merge.finished /\ \A key \in NewKeys : ~HasKey(ScriptsOf(merge.before), key)) =>
        /\ ~merge.asked
        /\ merge.wrote
        /\ ScriptsOf(packageJson) =
               ScriptsOf(merge.before)
               \o <<Member("build", Str("bunup")), Member("dev", Str("bunup --watch"))>>

\* The existing table {test: "old"} merged without a confirmation.
C3_Witness ==
    /\ merge.finished /\ ~merge.asked
    /\ ScriptsOf(merge.before) = <<Member("test", Str("old"))>>
    /\ Keys(ScriptsOf(packageJson)) = <<"test", "build", "dev">>

\* C4: when a confirmation was asked and the user accepted it, every new key maps
\* to its new command in the written table and every other key keeps its value.
C4_AcceptOverwrites ==
    (merge.finished /\ merge.asked /\ merge.answer = "yes") =>
        LET old == ScriptsOf(merge.before)
            new == ScriptsOf(packageJson)
        IN  /\ merge.wrote
            /\ Get(new, "build") = Str("bunup")
            /\ Get(new, "dev") = Str("bunup --watch")
            /\ \A i \in 1..Len(old) :
                   old[i].key \notin NewKeys => Get(new, old[i].key) = old[i].val
            /\ Range(Keys(new)) = Range(Keys(old)) \cup NewKeys

\* An accepted confirmation that overwrote build: "old" beside an unrelated script.
C4_Witness ==
    /\ merge.finished /\ merge.asked /\ merge.answer = "yes"
    /\ Get(ScriptsOf(merge.before), "build") = Str("old")
    /\ HasKey(ScriptsOf(merge.before), "test")
    /\ Get(ScriptsOf(packageJson), "build") = Str("bunup")

\* C5: after the merge step, whatever its outcome, every top-level field other than
\* scripts of the loaded manifest is in the manifest on disk with the same value.
C5_FieldsKept ==
    merge.finished =>
        LET old == MembersOf(merge.before)
            new == MembersOf(packageJson)
        IN  \A i \in 1..Len(old) :
                old[i].key # "scripts" =>
                    HasKey(new, old[i].key) /\ Get(new, old[i].key) = old[i].val

\* A written merge on a manifest with fields before and after its scripts table.
C5_Witness ==
    /\ merge.finished /\ merge.wrote /\ merge.asked
    /\ Keys(MembersOf(merge.before)) = <<"name", "scripts", "license">>

\* C6: a second merge, in the same mode and with every confirmation accepted, on the
\* manifest an accepted merge produced leaves the same manifest, key order included.
C6_Idempotent ==
    (Accepted(previous) /\ Accepted(merge) /\ previous.isWorkspace = merge.isWorkspace) =>
        /\ merge.before = previous.after
        /\ merge.after = previous.after
        /\ packageJson = previous.after

\* A second accepted merge after a first one that had overwritten a conflicting key.
C6_Witness ==
    /\ Accepted(previous) /\ Accepted(merge)
    /\ previous.isWorkspace = merge.isWorkspace
    /\ previous.asked /\ merge.asked
    /\ previous.before # previous.after

-----------------------------------------------------------------------------
(* Properties of the create and init flows                                  *)

Whitespace == {" ", "\t"}

\* C7: for every descriptor, variant (basic or full) and monorepo answer (yes or
\* no), the resolved directory is that of the variant in the monorepo mapping when
\* monorepo was chosen and the descriptor has the mapping, else in the variant
\* mapping, with the full variant's directory when the mapping lacks the variant;
\* and whatever the answers, a directory is returned.
C7_TemplateDirRule ==
    pc = "resolved" =>
        /\ templateDir # ""
        /\ (selectedVariant \in {"basic", "full"} /\ useMonorepo \in {"yes", "no"}) =>
               LET map == IF useMonorepo = "yes" /\ "monorepo" \in DOMAIN template
                          THEN template.monorepo
                          ELSE template.variants
               IN  templateDir = IF selectedVariant \in DOMAIN map
                                 THEN map[selectedVariant]
                                 ELSE map["full"]

\* The basic variant of a monorepo whose mapping has only the full variant.
C7_Witness ==
    /\ pc = "resolved"
    /\ selectedVariant = "basic" /\ useMonorepo = "yes"
    /\ "monorepo" \in DOMAIN template
    /\ "basic" \in DOMAIN template.variants
    /\ "basic" \notin DOMAIN template.monorepo
    /\ templateDir = "ts-lib-monorepo"

\* C8: the project name the create flow goes to the download step with is non-empty,
\* has no whitespace character and names no existing path of the working directory.
C8_ProjectNameContract ==
    (command = "create" /\ pc = "download") =>
        /\ projectName # <<>>
        /\ \A i \in 1..Len(projectName) : projectName[i] \notin Whitespace
        /\ projectName \notin cwdEntries

\* C9: once a cancel signal was given at a prompt, the process has ended with a
\* non-zero status (so no prompt, download, substitution, write or install follows).
C9_CancelTerminates ==
    cancelled => (pc \in {"exited", "crashed"} /\ exitCode >= 1)

\* C10: an init run that finds no manifest has exited with status 1 after logging,
\* has shown no prompt, written no configuration file and no manifest, and has not
\* invoked the install step.
C10_MissingManifestFatal ==
    (command = "init" /\ ~packageJson.exists) =>
        /\ pc = "exited"
        /\ exitCode = 1
        /\ "package.json not found" \in logged
        /\ prompted = {}
        /\ configWrites = 0
        /\ ~merge.reached /\ ~merge.wrote
        /\ installs = 0
        /\ outros = 0

\* An init run in a directory without a manifest.
C10_Witness ==
    /\ command = "init"
    /\ ~packageJson.exists
    /\ pc = "exited"

-----------------------------------------------------------------------------
(* Properties of the configuration renderers (checked under SpecRender)     *)

PluginsModule == Quoted(<<"bunup", "plugins">>)

\* Positions of the module specifier of the plugins namespace.
PluginImportAt(text) == {i \in 1..Len(text) : text[i] = PluginsModule}

\* Positions of a `plugins:` key.
PluginsKeyAt(text) ==
    {i \in 1..(Len(text) - 1) : text[i] = Id("plugins") /\ text[i + 1] = Punct(":")}

\* The identifiers of a stretch of text, in order.
IdsOf(text) ==
    LET ids == SelectSeq(text, LAMBDA tok : tok.t = "id")
    IN  [i \in 1..Len(ids) |-> ids[i].v[1]]

\* The names between the braces of the import statement that ends at position j.
ImportedNames(text, j) ==
    LET open == CHOOSE k \in 1..j : text[k] = Punct("{") /\
                    \A m \in (k + 1)..j : text[m] # Punct("{")
    IN  IdsOf(SubSeq(text, open + 1, j - 1))

\* The list that follows the key at position k: from its "[" to the first "]".
ListAfter(text, k) ==
    LET close == CHOOSE j \in (k + 2)..Len(text) : text[j] = Punct("]") /\
                     \A m \in (k + 2)..(j - 1) : text[m] # Punct("]")
    IN  SubSeq(text, k + 3, close - 1)

\* Every identifier of the list is a call: it is followed by "(" and ")".
AllCalls(list) ==
    \A i \in 1..Len(list) : list[i].t = "id" =>
        /\ i + 2 <= Len(list)
        /\ list[i + 1] = Punct("(")
        /\ list[i + 2] = Punct(")")

\* C11: whatever the shape and the plugin selection, the rendered text has the
\* import line of the plugins namespace and a plugins list exactly when at least
\* one plugin is selected; then there is one of each, and each names every selected
\* plugin exactly once, in selection order (as a call, in the list).
C11_PluginsIffSelected ==
    pc = "rendered" =>
        LET text == configFile.text
            imports == PluginImportAt(text)
            keys == PluginsKeyAt(text)
        IN  IF Len(plugins) = 0
            THEN imports = {} /\ keys = {}
            ELSE /\ Cardinality(imports) = 1
                 /\ Cardinality(keys) = 1
                 /\ \A j \in imports : ImportedNames(text, j) = plugins
                 /\ \A k \in keys :
                        /\ text[k + 2] = Punct("[")
                        /\ IdsOf(ListAfter(text, k)) = plugins
                        /\ AllCalls(ListAfter(text, k))

\* The workspace shape rendered with both plugins, selected in the order unused,
\* exports.
C11_Witness ==
    /\ pc = "rendered"
    /\ plugins = <<"unused", "exports">>
    /\ IsWorkspace
    /\ Len(packages) = MaxPackages

\* The nesting depth left open by text, -1 once a bracket closes nothing or the
\* wrong bracket.
Opening == {Punct("("), Punct("["), Punct("{")}
Closes(c, o) ==
    \/ c = Punct(")") /\ o = Punct("(")
    \/ c = Punct("]") /\ o = Punct("[")
    \/ c = Punct("}") /\ o = Punct("{")
Closing == {Punct(")"), Punct("]"), Punct("}")}

RECURSIVE Balanced(_, _)
Balanced(text, stack) ==
    IF text = <<>> THEN stack = <<>>
    ELSE IF Head(text) \in Opening THEN Balanced(Tail(text), <<Head(text)>> \o stack)
    ELSE IF Head(text) \in Closing
         THEN /\ stack # <<>>
              /\ Closes(Head(text), Head(stack))
              /\ Balanced(Tail(text), Tail(stack))
    ELSE Balanced(Tail(text), stack)

\* C12: the rendered text is syntactically valid: no comma follows a comma, every
\* property key comes first in its object or after a comma, and every bracket
\* opened is closed by its own kind.
C12_SyntacticallyValid ==
    pc = "rendered" =>
        LET text == configFile.text
        IN  /\ \A i \in 1..(Len(text) - 1) : ~(text[i] = Comma /\ text[i + 1] = Comma)
            /\ \A i \in 2..(Len(text) - 1) :
                   (text[i].t = "id" /\ text[i + 1] = Punct(":")) =>
                       text[i - 1] \in {Comma, Punct("{")}
            /\ Balanced(text, <<>>)

-----------------------------------------------------------------------------
(* Properties of the placeholder substitution (checked under SpecReplace)   *)

\* The value a piece stands for: its own replacement if it is a placeholder with
\* a defined replacement, else the piece itself.
ValueOf(piece, replacements) ==
    IF \E i \in 1..Len(replacements) :
           replacements[i].from = piece /\ replacements[i].to # UndefinedValue
    THEN replacements[CHOOSE i \in 1..Len(replacements) :
                          replacements[i].from = piece].to
    ELSE <<piece>>

\* Every occurrence of every placeholder replaced by its own value, at once.
RECURSIVE ReplacedAtOnce(_, _)
ReplacedAtOnce(text, replacements) ==
    IF text = <<>> THEN <<>>
    ELSE ValueOf(Head(text), replacements) \o ReplacedAtOnce(Tail(text), replacements)

\* C13: the text the substitution task leaves is the original text with every
\* occurrence of each placeholder replaced by its own value, whatever the supplied
\* values are: no replacement alters text another replacement inserted.
C13_NoInterference ==
    [][(pc = "customize" /\ pc' = "done") =>
           projectText' = ReplacedAtOnce(projectText,
                              Replacements(template, githubRepoInfo, projectName,
                                           useMonorepo, monorepoFirstPackageName))]_vars

-----------------------------------------------------------------------------
(* The scripts to install (checked under SpecMerge)                         *)

\* The (build, dev) commands of a manifest.
PairOf(file) == <<Get(ScriptsOf(file), "build"), Get(ScriptsOf(file), "dev")>>

\* Two invocations in a row wrote their scripts, one in each mode.
C14_BothModesWrote ==
    /\ Accepted(previous)
    /\ Accepted(merge)
    /\ previous.isWorkspace # merge.isWorkspace

\* C14 as stated: the pair installed in workspace mode differs from the pair
\* installed in single-package mode.
C14_PairsDistinct ==
    C14_BothModesWrote => PairOf(previous.after) # PairOf(merge.after)

\* C14, amended: the pair an invocation installs is fixed by its mode, and is the
\* same in both modes: build is 'bunup' and dev is 'bunup --watch'.
C14_PairByMode ==
    Accepted(merge) =>
        /\ PairOf(merge.after) = <<Str("bunup"), Str("bunup --watch")>>
        /\ (Accepted(previous) /\ previous.isWorkspace = merge.isWorkspace) =>
               PairOf(previous.after) = PairOf(merge.after)

\* A workspace-mode invocation wrote its scripts after a single-package one did.
C14_Witness ==
    /\ C14_BothModesWrote
    /\ merge.isWorkspace

-----------------------------------------------------------------------------
(* Properties of the collectors and of the init flow (checked under Spec)   *)

EntryPrompts == {"entryFile", "packageEntryFile"}
AddEntryPrompts == {"addEntry", "addPackageEntry"}

\* The path the validator looked up for a stored entry of list under root.
LookedUp(root, entry) == IF IsWorkspace THEN PathJoin(root, entry) ELSE entry

\* No entry twice, and every entry a regular file where the validator looked.
ValidEntries(root, list) ==
    /\ \A i, j \in 1..Len(list) : list[i] = list[j] => i = j
    /\ \A i \in 1..Len(list) : list[i] # <<>> /\ IsFile(LookedUp(root, list[i]))

\* Positions of the init flow at which the entry-file loop has ended.
AfterEntryLoop ==
    IF IsWorkspace THEN {"formats"}
    ELSE {"formats", "plugins", "scripts", "override", "install", "done"}

C15_ListValid ==
    (command = "init" /\ ~cancelled) =>
        /\ ValidEntries(packageRoot, entryFiles)
        /\ \A i \in 1..Len(packages) : ValidEntries(packages[i].root, packages[i].entryFiles)
        /\ pc \in AfterEntryLoop => entryFiles # <<>>

\* A step at an entry prompt either leaves the list and the prompt as they are (the
\* input was rejected) or appends one entry and asks whether to add another; a step
\* at the add-another confirm leaves the list alone.
C15_Step ==
    (command = "init" /\ ~cancelled') =>
        /\ pc \in EntryPrompts =>
               \/ entryFiles' = entryFiles /\ pc' = pc
               \/ /\ Len(entryFiles') = Len(entryFiles) + 1
                  /\ SubSeq(entryFiles', 1, Len(entryFiles)) = entryFiles
                  /\ pc' \in AddEntryPrompts
        /\ pc \in AddEntryPrompts =>
               entryFiles' = entryFiles /\ pc' \in EntryPrompts \cup {"formats"}

\* C15: in runs of typed paths and add-another answers (no cancel signal), the
\* entry list of both collectors never holds a duplicate and holds only paths the
\* validator found to be regular files (under the package root in package mode,
\* the stored value being the typed relative path); a rejected input leaves the
\* list unchanged and the same prompt open; the list is non-empty once the loop
\* has ended.
C15_EntryCollector == [](C15_ListValid) /\ [][C15_Step]_vars

\* A package-scoped loop ended with two entries typed relative to the root.
C15_Witness ==
    /\ ~cancelled
    /\ IsWorkspace
    /\ pc = "formats"
    /\ packageRoot = <<"packages", "core">>
    /\ entryFiles = <<<<"src", "cli.ts">>, <<"src", "index.ts">>>>

C16_Declined == merge.finished /\ merge.answer = "no"

\* The order of the effects of the init flow, at every state.
C16_Order ==
    command = "init" =>
        /\ configWrites <= 1 /\ installs <= 1 /\ outros <= 1
        /\ merge.reached => configWrites = 1
        /\ installs = 1 => merge.finished
        /\ outros = 1 => installs = 1 /\ pc = "done"
        /\ pc = "done" => configWrites = 1 /\ merge.finished /\ installs = 1 /\ outros = 1
        /\ C16_Declined =>
               /\ pc \in {"install", "done", "crashed"}
               /\ packageJson = merge.before
               /\ pc = "crashed" => installs = 1
               /\ pc = "done" => exitCode = 0
        /\ pc = "install" => ENABLED Install(TRUE)

\* The effects happen one at a time: the configuration write, then the merge step,
\* then the install, whose success shows the closing summary; nothing follows it.
C16_Step ==
    command = "init" =>
        /\ configWrites' # configWrites => ~merge.reached /\ merge' = merge
        /\ merge'.reached # merge.reached => configWrites = 1 /\ installs' = 0
        /\ installs' # installs => merge.finished /\ configWrites = 1
        /\ pc \notin {"done", "crashed", "exited"}

\* C16: in a run of the init flow on a manifest that was found, the configuration
\* file is written exactly once and before the merge step, the merge step (write
\* or skip) is over before the install step, the install step is invoked exactly
\* once and the closing summary is shown last; declining the confirmation is no
\* error: the manifest stays as it was, the install step follows, and unless the
\* install itself fails the run ends with the closing summary and status 0.
C16_OrderAndCompletion == [](C16_Order) /\ [][C16_Step]_vars

\* A run that declined the confirmation and ended with the closing summary.
C16_Witness ==
    /\ command = "init"
    /\ C16_Declined
    /\ pc = "done"
    /\ outros = 1

\* The package list: distinct non-empty names, each package with entries, and
\* at least one package once the loop has ended.
C17_ListValid ==
    command = "init" =>
        /\ \A i, j \in 1..Len(packages) : packages[i].name = packages[j].name => i = j
        /\ \A i \in 1..Len(packages) :
               /\ packages[i].name \notin {<<>>, CancelSym}
               /\ packages[i].entryFiles # <<>>
        /\ (IsWorkspace /\ pc \in {"plugins", "scripts", "override", "install", "done"}) =>
               Len(packages) >= 1

\* A step at the name prompt leaves the list alone; it keeps the prompt open, or
\* takes a name that is new, or ends the process.
C17_Step ==
    (command = "init" /\ pc = "packageName") =>
        /\ packages' = packages
        /\ \/ pc' = pc /\ packageName' = packageName
           \/ pc' = "crashed"
           \/ /\ pc' = "packageRoot"
              /\ packageName' # <<>>
              /\ \A i \in 1..Len(packages) : packages[i].name # packageName'

\* C17: the collected packages have pairwise distinct, non-empty names; an empty
\* name or one already collected leaves the list unchanged and the name prompt
\* open; the list the renderer gets has at least one package, and every package
\* has at least one entry file.
C17_PackageCollector == [](C17_ListValid) /\ [][C17_Step]_vars

\* The loop ended with two packages.
C17_Witness ==
    /\ command = "init"
    /\ pc = "plugins"
    /\ Len(packages) = 2

====
